---- MODULE Spec2Model ----
(***************************************************************************)
(* A model of src/connections/gaia_connection.py: the GaiaConnection       *)
(* connector (configuration validation, credential resolution, header      *)
(* construction, reachability probe, streaming text generation and action  *)
(* dispatch).                                                              *)
(*                                                                         *)
(* Python values are tagged pairs <<type, payload>>, so that isinstance    *)
(* and truthiness are computed as Python computes them.  A dict is a       *)
(* function whose DOMAIN is its key set.  An f-string message is the       *)
(* sequence of its pieces.  A method is an operator from the object (the   *)
(* record self), its arguments and the server's answer to an outcome:      *)
(* the object afterwards, the value returned or the exception raised, the  *)
(* HTTP requests issued and the number of stream lines consumed.           *)
(***************************************************************************)
EXTENDS Naturals, Sequences, FiniteSets, TLC

VARIABLES environ, self, phase, last

vars == <<environ, self, phase, last>>

\* ------------------------------------------------------------ bounds
\* Longest streamed response body, in lines.
MaxLines == 2

\* ------------------------------------------------------ Python values
Str(s) == <<"str", s>>
None == <<"NoneType", "">>
Int42 == <<"int", "42">>

isinstance_str(v) == v[1] = "str"

\* Python truthiness: None, "" and 0 are falsy.
truthy(v) ==
    CASE v[1] = "NoneType" -> FALSE
      [] v[1] = "str" -> v[2] # ""
      [] v[1] = "int" -> v[2] # "0"
      [] OTHER -> TRUE

\* a or b
py_or(a, b) == IF truthy(a) THEN a ELSE b

EmptyDict == [k \in {} |-> None]

\* d.get(k) and d.get(k, default)
dict_get(d, k, default) == IF k \in DOMAIN d THEN d[k] ELSE default

\* A dict literal: the keys of `keys` that `choice` binds to a value (Missing leaves
\* the key out of the dict).
Missing == <<"missing", "">>
Dict(keys, choice) == [k \in {x \in keys : choice[x] # Missing} |-> choice[k]]

\* [field for field in fields if field not in d], from index i on.
RECURSIVE fields_not_in(_, _, _)
fields_not_in(fields, d, i) ==
    IF i > Len(fields) THEN <<>>
    ELSE (IF fields[i] \notin DOMAIN d THEN <<fields[i]>> ELSE <<>>)
         \o fields_not_in(fields, d, i + 1)

Mentions(msg, piece) == \E i \in 1..Len(msg) : msg[i] = piece

\* ------------------------------------------------ outcomes of a call
Return(v) == [ok |-> TRUE, exc |-> "", msg |-> <<>>, value |-> v]
Raise(exc, msg) == [ok |-> FALSE, exc |-> exc, msg |-> msg, value |-> None]

\* invoked: the methods a dispatching call went on to invoke.
Outcome(slf, res, reqs, read) ==
    [self |-> slf, res |-> res, reqs |-> reqs, read |-> read, invoked |-> <<>>]

\* ------------------------------------------------------ validate_config
required_fields == <<"base_url", "model">>

\* validate_config without the type check of model.
validate_config_unchecked_model(config) ==
    LET missing_fields == fields_not_in(required_fields, config, 1)
    IN  IF missing_fields # <<>>
        THEN Raise("ValueError",
                   <<"Missing required configuration fields:">> \o missing_fields)
        ELSE IF ~isinstance_str(config["base_url"])
        THEN Raise("ValueError", <<"base_url", "must be a string">>)
        ELSE Return(config)

validate_config(config) ==
    LET missing_fields == fields_not_in(required_fields, config, 1)
    IN  IF missing_fields # <<>>
        THEN Raise("ValueError",
                   <<"Missing required configuration fields:">> \o missing_fields)
        ELSE IF ~isinstance_str(config["base_url"])
        THEN Raise("ValueError", <<"base_url", "must be a string">>)
        ELSE IF ~isinstance_str(config["model"])
        THEN Raise("ValueError", <<"model", "must be a string">>)
        ELSE Return(config)

\* ------------------------------------------------------ register_actions
ActionParameter(name, required, type) ==
    [name |-> name, required |-> required, type |-> type]

\* An action name is the sequence of its pieces, so that replace('-', '_') is computed.
GenerateText == <<"generate", "-", "text">>

register_actions ==
    [n \in {GenerateText} |->
        [name |-> GenerateText,
         parameters |-> <<ActionParameter("prompt", TRUE, "str"),
                          ActionParameter("system_prompt", TRUE, "str"),
                          ActionParameter("model", FALSE, "str")>>,
         description |-> "Generate text using Gaia's running model"]]

\* ------------------------------------------------------------- __init__
Blank == [config |-> EmptyDict, actions |-> EmptyDict, base_url |-> None, api_key |-> None]

DefaultBaseUrl == Str("http://llama70b.gaia.domains")

\* BaseConnection.__init__: keeps the validated configuration and registers the actions.
BaseConnection_init(slf, config) ==
    LET v == validate_config(config)
    IN  IF v.ok
        THEN Outcome([slf EXCEPT !.config = v.value, !.actions = register_actions],
                     Return(None), <<>>, 0)
        ELSE Outcome(slf, v, <<>>, 0)

\* The credential with the environment consulted before the configuration.
get_api_key_env_first(config, env) ==
    py_or(dict_get(env, "GAIA_API_KEY", None), dict_get(config, "api_key", None))

get_api_key(config, env) ==
    py_or(dict_get(config, "api_key", None), dict_get(env, "GAIA_API_KEY", None))

\* GaiaConnection.__init__
__init__(slf, config, env) ==
    LET base == BaseConnection_init(slf, config)
    IN  IF ~base.res.ok THEN base
        ELSE Outcome([base.self EXCEPT
                        !.base_url = dict_get(config, "base_url", DefaultBaseUrl),
                        !.api_key = get_api_key(config, env)],
                     Return(None), <<>>, 0)

\* --------------------------------------------------------- _get_headers
_get_headers(slf) ==
    IF truthy(slf.api_key)
    THEN [h \in {"Content-Type", "Authorization"} |->
            IF h = "Content-Type" THEN <<"application/json">>
            ELSE <<"Bearer ", slf.api_key[2]>>]
    ELSE [h \in {"Content-Type"} |-> <<"application/json">>]

\* ------------------------------------------------------------- requests
\* The server's answer to one request: a status ("fault" when the transport raises
\* instead of answering), the body as text and the body as a stream of lines.
Request(method, url, headers, json, stream) ==
    [method |-> method, url |-> url, headers |-> headers, json |-> json, stream |-> stream]

\* try: ... except Exception as e: raise exc(f"{prefix}{e}")
except_Exception(res, exc, prefix) ==
    IF res.ok THEN res ELSE Raise(exc, <<prefix>> \o res.msg)

\* ----------------------------------------------------- _test_connection
\* _test_connection without the except clause: the cause propagates as it is.
_test_connection_unwrapped(slf, server) ==
    LET url == <<slf.base_url[2], "/v1/models">>
        req == Request("GET", url, _get_headers(slf), None, FALSE)
        body ==
            IF server.status = "fault"
            THEN Raise("ConnectionError", <<"connection failed">>)
            ELSE IF server.status # "200"
            THEN Raise("GaiaAPIError",
                       <<"Failed to connect to Gaia:", server.status, "-", server.text>>)
            ELSE Return(None)
    IN  Outcome(slf, body, <<req>>, 0)

_test_connection(slf, server) ==
    LET url == <<slf.base_url[2], "/v1/models">>
        headers == _get_headers(slf)
        req == Request("GET", url, headers, None, FALSE)
        body ==
            IF server.status = "fault"
            THEN Raise("ConnectionError", <<"connection failed">>)
            ELSE IF server.status # "200"
            THEN Raise("GaiaAPIError",
                       <<"Failed to connect to Gaia:", server.status, "-", server.text>>)
            ELSE Return(None)
    IN  Outcome(slf, except_Exception(body, "GaiaConnectionError", "Connection test failed:"),
                <<req>>, 0)

\* -------------------------------------------------------- is_configured
True == <<"bool", "True">>
False == <<"bool", "False">>

is_configured(slf, verbose, server) ==
    LET t == _test_connection(slf, server)
    IN  Outcome(t.self, IF t.res.ok THEN Return(True) ELSE Return(False), t.reqs, t.read)

\* ------------------------------------------------------------ configure
\* str.lower() on the answers the prompts can receive.
lower(s) == IF s = "Y" THEN "y" ELSE IF s = "N" THEN "n" ELSE s

\* configure probing with the headers of the object as it was before the prompts.
configure_stale_headers(slf, answers, server) ==
    LET s1 == IF lower(answers.response) # "y"
              THEN [slf EXCEPT !.base_url = Str(answers.new_url)]
              ELSE slf
        s2 == IF ~truthy(s1.api_key) /\ lower(answers.use_api_key) = "y"
              THEN [s1 EXCEPT !.api_key = Str(answers.key)]
              ELSE s1
        t == _test_connection([s2 EXCEPT !.api_key = slf.api_key], server)
    IN  Outcome(s2, IF t.res.ok THEN Return(True) ELSE Return(False), t.reqs, t.read)

\* answers: what input() returns at each of the four prompts, when it is asked.
configure(slf, answers, server) ==
    LET s1 == IF lower(answers.response) # "y"
              THEN [slf EXCEPT !.base_url = Str(answers.new_url)]
              ELSE slf
        s2 == IF ~truthy(s1.api_key) /\ lower(answers.use_api_key) = "y"
              THEN [s1 EXCEPT !.api_key = Str(answers.key)]
              ELSE s1
        t == _test_connection(s2, server)
    IN  Outcome(t.self, IF t.res.ok THEN Return(True) ELSE Return(False), t.reqs, t.read)

\* -------------------------------------------------------- generate_text
\* A line of the streamed body, as json.loads sees it: empty (b""), invalid (not
\* JSON), array (JSON, but no object) or object; an object's "response" member is
\* absent or a JSON value.  Text is a sequence of characters.
Absent == <<"absent", <<>>>>
JStr(t) == <<"str", t>>
JNum == <<"int", <<"4", "2">>>>
Line(kind, response) == [kind |-> kind, response |-> response]

\* iter_lines with the text of each line put before the text gathered so far.
RECURSIVE iter_lines_prepend(_, _, _)
iter_lines_prepend(lines, i, acc) ==
    IF i > Len(lines) THEN [res |-> Return(acc), read |-> Len(lines)]
    ELSE LET line == lines[i]
             data_response == IF line.response = Absent THEN JStr(<<>>) ELSE line.response
         IN  IF line.kind = "empty" THEN iter_lines_prepend(lines, i + 1, acc)
             ELSE IF line.kind = "invalid"
             THEN [res |-> Raise("GaiaAPIError", <<"Failed to parse JSON:", "JSONDecodeError">>),
                   read |-> i]
             ELSE IF line.kind # "object"
             THEN [res |-> Raise("AttributeError", <<"object has no attribute 'get'">>),
                   read |-> i]
             ELSE IF data_response[1] # "str"
             THEN [res |-> Raise("TypeError", <<"can only concatenate str">>), read |-> i]
             ELSE iter_lines_prepend(lines, i + 1, data_response[2] \o acc)

\* iter_lines with a line that is not JSON skipped instead of raised.
RECURSIVE iter_lines_skip(_, _, _)
iter_lines_skip(lines, i, acc) ==
    IF i > Len(lines) THEN [res |-> Return(acc), read |-> Len(lines)]
    ELSE LET line == lines[i]
             data_response == IF line.response = Absent THEN JStr(<<>>) ELSE line.response
         IN  IF line.kind \in {"empty", "invalid"} THEN iter_lines_skip(lines, i + 1, acc)
             ELSE IF line.kind # "object"
             THEN [res |-> Raise("AttributeError", <<"object has no attribute 'get'">>),
                   read |-> i]
             ELSE IF data_response[1] # "str"
             THEN [res |-> Raise("TypeError", <<"can only concatenate str">>), read |-> i]
             ELSE iter_lines_skip(lines, i + 1, acc \o data_response[2])

\* for line in response.iter_lines(): ... , from line i on, with full_response = acc.
\* Returns the loop's outcome and the number of lines taken from the stream.
RECURSIVE iter_lines(_, _, _)
iter_lines(lines, i, acc) ==
    IF i > Len(lines) THEN [res |-> Return(acc), read |-> Len(lines)]
    ELSE LET line == lines[i]
             data_response == IF line.response = Absent THEN JStr(<<>>) ELSE line.response
         IN  IF line.kind = "empty" THEN iter_lines(lines, i + 1, acc)
             ELSE IF line.kind = "invalid"
             THEN [res |-> Raise("GaiaAPIError", <<"Failed to parse JSON:", "JSONDecodeError">>),
                   read |-> i]
             ELSE IF line.kind # "object"
             THEN [res |-> Raise("AttributeError", <<"object has no attribute 'get'">>),
                   read |-> i]
             ELSE IF data_response[1] # "str"
             THEN [res |-> Raise("TypeError", <<"can only concatenate str">>), read |-> i]
             ELSE iter_lines(lines, i + 1, acc \o data_response[2])

\* generate_text keeping the model override in the configuration.
generate_text_stores_model(slf, prompt, system_prompt, model, server) ==
    LET kept == IF truthy(model)
                THEN [slf EXCEPT !.config = [k \in DOMAIN slf.config \cup {"model"} |->
                                               IF k = "model" THEN model ELSE slf.config[k]]]
                ELSE slf
        url == <<kept.base_url[2], "/v1/chat/completions">>
        payload == [model |-> py_or(model, dict_get(kept.config, "model", None)),
                    prompt |-> prompt, system |-> system_prompt]
        req == Request("POST", url, _get_headers(kept), payload, TRUE)
        loop == iter_lines(server.lines, 1, <<>>)
    IN  IF server.status = "fault"
        THEN Outcome(kept, except_Exception(Raise("ConnectionError", <<"connection failed">>),
                                            "GaiaAPIError", "Text generation failed:"),
                     <<req>>, 0)
        ELSE IF server.status # "200"
        THEN Outcome(kept, except_Exception(
                               Raise("GaiaAPIError",
                                     <<"API error:", server.status, "-", server.text>>),
                               "GaiaAPIError", "Text generation failed:"),
                     <<req>>, 0)
        ELSE Outcome(kept, except_Exception(loop.res, "GaiaAPIError", "Text generation failed:"),
                     <<req>>, loop.read)

\* generate_text without the status check: the stream is read whatever the status.
generate_text_any_status(slf, prompt, system_prompt, model, server) ==
    LET url == <<slf.base_url[2], "/v1/chat/completions">>
        payload == [model |-> py_or(model, dict_get(slf.config, "model", None)),
                    prompt |-> prompt, system |-> system_prompt]
        req == Request("POST", url, _get_headers(slf), payload, TRUE)
        loop == iter_lines(server.lines, 1, <<>>)
    IN  IF server.status = "fault"
        THEN Outcome(slf, except_Exception(Raise("ConnectionError", <<"connection failed">>),
                                           "GaiaAPIError", "Text generation failed:"),
                     <<req>>, 0)
        ELSE Outcome(slf, except_Exception(loop.res, "GaiaAPIError", "Text generation failed:"),
                     <<req>>, loop.read)

generate_text(slf, prompt, system_prompt, model, server) ==
    LET url == <<slf.base_url[2], "/v1/chat/completions">>
        payload == [model |-> py_or(model, dict_get(slf.config, "model", None)),
                    prompt |-> prompt, system |-> system_prompt]
        headers == _get_headers(slf)
        req == Request("POST", url, headers, payload, TRUE)
        loop == iter_lines(server.lines, 1, <<>>)
    IN  IF ~truthy(model) /\ "model" \notin DOMAIN slf.config
        THEN Outcome(slf, except_Exception(Raise("KeyError", <<"model">>), "GaiaAPIError",
                                           "Text generation failed:"), <<>>, 0)
        ELSE IF server.status = "fault"
        THEN Outcome(slf, except_Exception(Raise("ConnectionError", <<"connection failed">>),
                                           "GaiaAPIError", "Text generation failed:"),
                     <<req>>, 0)
        ELSE IF server.status # "200"
        THEN Outcome(slf, except_Exception(
                              Raise("GaiaAPIError",
                                    <<"API error:", server.status, "-", server.text>>),
                              "GaiaAPIError", "Text generation failed:"),
                     <<req>>, 0)
        ELSE Outcome(slf, except_Exception(loop.res, "GaiaAPIError", "Text generation failed:"),
                     <<req>>, loop.read)

\* ------------------------------------------------------- perform_action
\* Action.validate_params: one message per parameter that is required and missing,
\* or supplied with a value that is not of the declared type.
RECURSIVE validate_params(_, _, _)
validate_params(parameters, kwargs, i) ==
    IF i > Len(parameters) THEN <<>>
    ELSE LET param == parameters[i]
             error ==
                 IF param.name \notin DOMAIN kwargs
                 THEN (IF param.required
                       THEN <<"Missing required parameter:", param.name>> ELSE <<>>)
                 ELSE IF kwargs[param.name][1] # param.type
                 THEN <<"Invalid type for", param.name>>
                 ELSE <<>>
         IN  error \o validate_params(parameters, kwargs, i + 1)

\* action_name.replace('-', '_')
replace_dash(name) == [i \in 1..Len(name) |-> IF name[i] = "-" THEN "_" ELSE name[i]]

\* The methods getattr(self, method_name) finds that an action can name.
generate_text_name == <<"generate", "_", "text">>

\* perform_action with the parameters validated only after the method was invoked.
perform_action_validates_late(slf, action_name, kwargs, server) ==
    IF action_name \notin DOMAIN slf.actions
    THEN Outcome(slf, Raise("KeyError", <<"Unknown action:">> \o action_name), <<>>, 0)
    ELSE LET action == slf.actions[action_name]
             errors == validate_params(action.parameters, kwargs, 1)
             method_name == replace_dash(action_name)
             done == [generate_text(slf, dict_get(kwargs, "prompt", None),
                                    dict_get(kwargs, "system_prompt", None),
                                    dict_get(kwargs, "model", None), server)
                        EXCEPT !.invoked = <<method_name>>]
         IN  IF errors # <<>>
             THEN [done EXCEPT !.res = Raise("ValueError", <<"Invalid parameters:">> \o errors)]
             ELSE done

perform_action(slf, action_name, kwargs, server) ==
    IF action_name \notin DOMAIN slf.actions
    THEN Outcome(slf, Raise("KeyError", <<"Unknown action:">> \o action_name), <<>>, 0)
    ELSE LET action == slf.actions[action_name]
             errors == validate_params(action.parameters, kwargs, 1)
             method_name == replace_dash(action_name)
         IN  IF errors # <<>>
             THEN Outcome(slf, Raise("ValueError", <<"Invalid parameters:">> \o errors), <<>>, 0)
             ELSE IF method_name # generate_text_name
             THEN Outcome(slf, Raise("AttributeError", method_name), <<>>, 0)
             ELSE [generate_text(slf, kwargs["prompt"], kwargs["system_prompt"],
                                 dict_get(kwargs, "model", None), server)
                     EXCEPT !.invoked = <<method_name>>]

\* ------------------------------------------------------------- inputs
BaseUrlValues == {Str(""), Str("http://gaia"), Int42}
ModelValues == {Str(""), Str("llama"), Int42}
ApiKeyValues == {Str(""), Str("cfg-key"), None}

Configs ==
    {Dict({"base_url", "model", "api_key"},
          [k \in {"base_url", "model", "api_key"} |->
             IF k = "base_url" THEN t[1] ELSE IF k = "model" THEN t[2] ELSE t[3]]) :
       t \in (BaseUrlValues \cup {Missing}) \X (ModelValues \cup {Missing})
              \X (ApiKeyValues \cup {Missing})}

ValidConfigs == {c \in Configs : validate_config(c).ok}

Envs == {Dict({"GAIA_API_KEY"}, [k \in {"GAIA_API_KEY"} |-> v]) :
            v \in {Str("env-key"), Str(""), Missing}}

Lines ==
    {Line(t[1], t[2]) :
       t \in {<<"empty", Absent>>, <<"invalid", Absent>>, <<"array", Absent>>,
              <<"object", Absent>>, <<"object", JStr(<<"a">>)>>,
              <<"object", JStr(<<"b">>)>>, <<"object", JNum>>}}

Server(status, text, lines) == [status |-> status, text |-> text, lines |-> lines]

\* What the probe can meet: the body is not read.
Probes == {Server(st, "server error", <<>>) : st \in {"200", "500", "fault"}}

FewBodies ==
    {<<>>, <<Line("object", JStr(<<"a">>))>>, <<Line("invalid", Absent)>>,
     <<Line("object", JStr(<<"a">>)), Line("object", JStr(<<"b">>))>>}

\* Every body of up to MaxLines lines.
Bodies == {b : b \in UNION {[1..k -> Lines] : k \in 0..MaxLines}}

\* What a generation call can meet: a 200 with a body, an error status with some
\* body, or a transport fault.
Failures ==
    {Server(t[1], t[2], t[3]) :
       t \in ({"500"} \X {"server error"} \X FewBodies) \cup {<<"fault", "", <<>>>>}}

FewStreams == {Server("200", "", b) : b \in FewBodies} \cup Failures

AllStreams == {Server("200", "", b) : b \in Bodies} \cup Failures

DispatchStreams ==
    {Server("200", "", <<Line("object", JStr(<<"a">>)), Line("object", JStr(<<"b">>))>>),
     Server("500", "server error", <<Line("invalid", Absent)>>),
     Server("fault", "", <<>>)}

Answers ==
    {[response |-> t[1], new_url |-> "http://other", use_api_key |-> t[2], key |-> t[3]] :
       t \in {"y", "Y", "n"} \X {"y", "n"} \X {"", "typed-key"}}

Prompts == {Str("hi")}
ModelArgs == {None, Str("m2")}

ActionNames == {GenerateText, generate_text_name, <<"unknown">>}

Kwargs ==
    {Dict({"prompt", "system_prompt", "model"},
          [k \in {"prompt", "system_prompt", "model"} |->
             IF k = "prompt" THEN t[1] ELSE IF k = "system_prompt" THEN t[2] ELSE t[3]]) :
       t \in {Str("hi"), Int42, Missing} \X {Str("hi"), Int42, Missing}
              \X {Str("hi"), Int42, Missing}}

FewKwargs ==
    {kw \in Kwargs : "prompt" \in DOMAIN kw /\ "model" \notin DOMAIN kw
                     /\ \A k \in DOMAIN kw : kw[k] = Str("hi")}

\* ------------------------------------------------------ the state machine
\* environ: os.environ; self: the connector; phase: "new" before construction,
\* "ready" after it, "failed" when the constructor raised; last: the last call made,
\* with its arguments and its outcome.
Call(op, args, o) ==
    [op |-> op, args |-> args, res |-> o.res, reqs |-> o.reqs, read |-> o.read,
     invoked |-> o.invoked]

Init ==
    /\ environ \in Envs
    /\ self = Blank
    /\ phase = "new"
    /\ last = Call("none", <<>>, Outcome(Blank, Return(None), <<>>, 0))

Did(op, args, o) ==
    /\ self' = o.self
    /\ last' = Call(op, args, o)
    /\ UNCHANGED environ

Ready == phase = "ready" /\ UNCHANGED phase

Call_init ==
    /\ phase = "new"
    /\ \E config \in Configs :
         LET o == __init__(self, config, environ)
         IN  /\ Did("__init__", <<config>>, o)
             /\ phase' = IF o.res.ok THEN "ready" ELSE "failed"

Call_validate_config ==
    /\ Ready
    /\ \E config \in Configs :
         Did("validate_config", <<config>>, Outcome(self, validate_config(config), <<>>, 0))

Call_get_headers ==
    /\ Ready
    /\ Did("_get_headers", <<>>, Outcome(self, Return(_get_headers(self)), <<>>, 0))

Call_test_connection ==
    /\ Ready
    /\ \E server \in Probes :
         Did("_test_connection", <<server>>, _test_connection(self, server))

Call_is_configured ==
    /\ Ready
    /\ \E server \in Probes, verbose \in BOOLEAN :
         Did("is_configured", <<verbose, server>>, is_configured(self, verbose, server))

Call_configure ==
    /\ Ready
    /\ \E server \in Probes, answers \in Answers :
         Did("configure", <<answers, server>>, configure(self, answers, server))

Generate(prompt, system_prompt, model, server) ==
    Did("generate_text", <<prompt, system_prompt, model, server>>,
        generate_text(self, prompt, system_prompt, model, server))

Call_generate_text ==
    /\ Ready
    /\ \E server \in FewStreams, prompt \in Prompts, system_prompt \in Prompts,
          model \in ModelArgs :
         Generate(prompt, system_prompt, model, server)

Perform(action_name, kwargs, server) ==
    Did("perform_action", <<action_name, kwargs, server>>,
        perform_action(self, action_name, kwargs, server))

Call_perform_action ==
    /\ Ready
    /\ \E server \in FewStreams, action_name \in {GenerateText, <<"unknown">>},
          kwargs \in FewKwargs :
         Perform(action_name, kwargs, server)

\* The connector's whole life: construction, then any calls in any order.
Next ==
    \/ Call_init
    \/ Call_validate_config
    \/ Call_get_headers
    \/ Call_test_connection
    \/ Call_is_configured
    \/ Call_configure
    \/ Call_generate_text
    \/ Call_perform_action

Spec == Init /\ [][Next]_vars

\* Generation calls against every streamed body of up to MaxLines lines.
Stream_generate_text ==
    /\ Ready
    /\ \E server \in AllStreams, prompt \in Prompts, system_prompt \in Prompts :
         Generate(prompt, system_prompt, None, server)

NextStream ==
    \/ Call_init
    \/ Stream_generate_text

SpecStream == Init /\ [][NextStream]_vars

\* Dispatch of every action name with every keyword mapping.
Dispatch_perform_action ==
    /\ Ready
    /\ \E server \in DispatchStreams, action_name \in ActionNames, kwargs \in Kwargs :
         Perform(action_name, kwargs, server)

NextDispatch ==
    \/ Call_init
    \/ Dispatch_perform_action

SpecDispatch == Init /\ [][NextDispatch]_vars

\* ---------------------------------------------------- stream aggregation
LastServer == last.args[Len(last.args)]

\* The text a body stands for: each line's "response" string, in line order.
RECURSIVE Expected(_)
Expected(lines) ==
    IF lines = <<>> THEN <<>>
    ELSE (IF Head(lines).kind = "object" /\ Head(lines).response[1] = "str"
          THEN Head(lines).response[2] ELSE <<>>) \o Expected(Tail(lines))

AllObjects(lines) ==
    \A i \in 1..Len(lines) : lines[i].kind \in {"empty", "object"}

AllStrings(lines) ==
    \A i \in 1..Len(lines) : lines[i].response[1] \in {"absent", "str"}

HasInvalid(lines) == \E i \in 1..Len(lines) : lines[i].kind = "invalid"

\* C1 as stated: every 200 response whose non-empty lines all parse as JSON objects
\* yields the concatenation of the lines' "response" values.
C1_AnyObjects ==
    (last.op = "generate_text" /\ LastServer.status = "200" /\ AllObjects(LastServer.lines))
        => (last.res.ok /\ last.res.value = Expected(LastServer.lines))

\* C1, amended: for every 200 response whose non-empty lines all parse as JSON
\* objects whose "response" member is absent or a string, generate_text returns the
\* concatenation, in line order, of the lines' "response" strings (empty when the
\* key is absent); empty lines contribute nothing, and a body with no non-empty
\* line gives the empty string.
C1_Aggregation ==
    (last.op = "generate_text" /\ LastServer.status = "200"
     /\ AllObjects(LastServer.lines) /\ AllStrings(LastServer.lines))
        => (last.res.ok /\ last.res.value = Expected(LastServer.lines))

C1_Witness ==
    /\ last.op = "generate_text"
    /\ LastServer.status = "200"
    /\ LastServer.lines = <<Line("object", JStr(<<"a">>)), Line("object", JStr(<<"b">>))>>
    /\ last.res.ok
    /\ last.res.value = <<"a", "b">>

\* C2: a generation call returns the whole aggregated text or fails with no text; a
\* non-empty line that is not valid JSON fails the call with a GaiaAPIError whatever
\* precedes or follows it, and no bad line is skipped.
C2_AllOrNothing ==
    last.op = "generate_text" =>
        /\ (LastServer.status = "200" /\ HasInvalid(LastServer.lines))
              => (~last.res.ok /\ last.res.exc = "GaiaAPIError" /\ last.res.value = None)
        /\ last.res.ok
              => /\ AllObjects(LastServer.lines)
                 /\ last.read = Len(LastServer.lines)
                 /\ last.res.value = Expected(LastServer.lines)
        /\ ~last.res.ok => (last.res.exc = "GaiaAPIError" /\ last.res.value = None)

C2_Witness ==
    /\ last.op = "generate_text"
    /\ LastServer.status = "200"
    /\ LastServer.lines = <<Line("object", JStr(<<"a">>)), Line("invalid", Absent)>>
    /\ ~last.res.ok
    /\ last.read = 2

\* C3: a status other than 200 fails the generation call with a GaiaAPIError that
\* carries the status and the body text, before any line of the stream is read, and
\* no text is returned.
C3_StatusAborts ==
    (last.op = "generate_text" /\ LastServer.status \notin {"200", "fault"})
        => /\ ~last.res.ok
           /\ last.res.exc = "GaiaAPIError"
           /\ Mentions(last.res.msg, LastServer.status)
           /\ Mentions(last.res.msg, LastServer.text)
           /\ last.read = 0
           /\ last.res.value = None

C3_Witness ==
    /\ last.op = "generate_text"
    /\ LastServer.status = "500"
    /\ LastServer.text = "server error"
    /\ Len(LastServer.lines) = 2
    /\ last.res.msg = <<"Text generation failed:", "API error:", "500", "-", "server error">>

\* ------------------------------------------------------------ validation
LastConfig == last.args[1]

FaultyFields(config) ==
    {f \in {"base_url", "model"} : f \notin DOMAIN config \/ config[f][1] # "str"}

MissingFields(config) == {f \in {"base_url", "model"} : f \notin DOMAIN config}

FieldsNamed(msg) == {f \in {"base_url", "model"} : Mentions(msg, f)}

\* C4 as stated: validate_config fails for every configuration with a missing or
\* non-string base_url or model, with a message that lists every such field, and
\* returns the configuration only when both are present strings.
C4_ListsEveryField ==
    last.op = "validate_config" =>
        IF FaultyFields(LastConfig) = {}
        THEN last.res.ok /\ last.res.value = LastConfig
        ELSE /\ ~last.res.ok
             /\ last.res.exc = "ValueError"
             /\ FaultyFields(LastConfig) \subseteq FieldsNamed(last.res.msg)

\* C4, amended: validate_config fails with a ValueError for every configuration
\* with a missing or non-string base_url or model; when a field is missing the message
\* lists every missing field and no other field; when none is missing it names only
\* the first non-string field, base_url before model; the configuration is returned,
\* unchanged, only when both fields are present strings.
C4_Validation ==
    last.op = "validate_config" =>
        IF FaultyFields(LastConfig) = {}
        THEN last.res.ok /\ last.res.value = LastConfig
        ELSE /\ ~last.res.ok
             /\ last.res.exc = "ValueError"
             /\ FieldsNamed(last.res.msg) =
                  IF MissingFields(LastConfig) # {} THEN MissingFields(LastConfig)
                  ELSE IF "base_url" \in FaultyFields(LastConfig) THEN {"base_url"}
                  ELSE {"model"}

C4_Witness ==
    /\ last.op = "validate_config"
    /\ LastConfig = Dict({"model"}, [k \in {"model"} |-> Int42])
    /\ last.res.msg = <<"Missing required configuration fields:", "base_url">>

\* C9: whenever validate_config returns normally, base_url and model of the returned
\* configuration are non-empty strings.
C9_NonEmpty ==
    (last.op = "validate_config" /\ last.res.ok)
        => \A f \in {"base_url", "model"} :
             /\ f \in DOMAIN last.res.value
             /\ last.res.value[f][1] = "str"
             /\ last.res.value[f][2] # ""

\* ------------------------------------------------------------ credential
Constructed == last.op = "__init__" /\ phase = "ready"

\* C6 as stated: when the configuration holds an api_key, a string that may be
\* empty, and GAIA_API_KEY is set, the credential after construction is the
\* configuration's value.
C6_ConfigAlwaysWins ==
    (Constructed /\ "api_key" \in DOMAIN LastConfig /\ LastConfig["api_key"][1] = "str"
     /\ "GAIA_API_KEY" \in DOMAIN environ)
        => self.api_key = LastConfig["api_key"]

\* C6, amended: when the configuration holds an api_key that is neither empty nor
\* null, the credential after construction is the configuration's value, whether or
\* not GAIA_API_KEY is set; the environment's value is used when the configuration
\* holds no api_key, or an empty or null one; with neither there is no credential.
C6_Precedence ==
    Constructed =>
        IF "api_key" \in DOMAIN LastConfig /\ LastConfig["api_key"] \notin {Str(""), None}
        THEN self.api_key = LastConfig["api_key"]
        ELSE IF "GAIA_API_KEY" \in DOMAIN environ
        THEN self.api_key = environ["GAIA_API_KEY"]
        ELSE self.api_key = None

C6_Witness ==
    /\ Constructed
    /\ "api_key" \in DOMAIN LastConfig
    /\ "GAIA_API_KEY" \in DOMAIN environ
    /\ LastConfig["api_key"] # environ["GAIA_API_KEY"]
    /\ self.api_key = Str("cfg-key")

\* --------------------------------------------------------------- headers
HasCredential(api_key) == api_key # None /\ api_key # Str("")

HeadersFor(headers, api_key) ==
    /\ "Content-Type" \in DOMAIN headers
    /\ headers["Content-Type"] = <<"application/json">>
    /\ DOMAIN headers \subseteq {"Content-Type", "Authorization"}
    /\ "Authorization" \in DOMAIN headers <=> HasCredential(api_key)
    /\ HasCredential(api_key) => headers["Authorization"] = <<"Bearer ", api_key[2]>>

\* C7: every request, probe or generation, carries Content-Type: application/json,
\* and Authorization exactly when the connector holds a credential at that moment,
\* as Bearer <credential>; a credential set by configure is the one its own probe and
\* every later request carry.
C7_Headers ==
    phase = "ready" =>
        /\ \A i \in 1..Len(last.reqs) : HeadersFor(last.reqs[i].headers, self.api_key)
        /\ last.op = "_get_headers" => HeadersFor(last.res.value, self.api_key)
        /\ last.op \in {"_test_connection", "is_configured", "configure", "generate_text"}
              => Len(last.reqs) = 1

C7_Witness ==
    /\ last.op = "generate_text"
    /\ self.api_key = Str("typed-key")
    /\ Len(last.reqs) = 1
    /\ last.reqs[1].headers["Authorization"] = <<"Bearer ", "typed-key">>

\* ----------------------------------------------------------------- probe
\* C8: _test_connection returns normally only when GET {base_url}/v1/models answers
\* 200, and raises GaiaConnectionError, no other type, for every other status and for
\* a transport fault; is_configured never raises, and returns True exactly when the
\* probe returns normally and False otherwise.
C8_Probe ==
    /\ last.op = "_test_connection" =>
          /\ last.res.ok <=> LastServer.status = "200"
          /\ ~last.res.ok => last.res.exc = "GaiaConnectionError"
          /\ Len(last.reqs) = 1
          /\ last.reqs[1].method = "GET"
          /\ last.reqs[1].url = <<self.base_url[2], "/v1/models">>
    /\ last.op = "is_configured" =>
          /\ last.res.ok
          /\ last.res.value = IF LastServer.status = "200" THEN True ELSE False

C8_Witness ==
    /\ last.op = "is_configured"
    /\ LastServer.status = "fault"
    /\ last.res.ok
    /\ last.res.value = False

\* ------------------------------------------------------------- read-only
\* C10: generate_text, perform_action, is_configured, _test_connection and
\* _get_headers, succeeding or failing, leave the registry (the one entry
\* generate-text), the configuration, base_url and api_key as they were; configure is
\* the only call that changes base_url or api_key, and it leaves the registry and the
\* configuration alone.
C10_ReadOnly ==
    [][phase = "ready" =>
         /\ DOMAIN self.actions = {GenerateText}
         /\ self'.actions = self.actions
         /\ self'.config = self.config
         /\ last'.op # "configure" => self' = self]_vars

C10_Witness ==
    /\ last.op = "generate_text"
    /\ ~last.res.ok
    /\ self.base_url = Str("http://other")
    /\ self.api_key = Str("typed-key")

\* --------------------------------------------------------------- dispatch
Violations(kwargs) ==
    {p \in {"prompt", "system_prompt"} : p \notin DOMAIN kwargs}
    \cup {p \in DOMAIN kwargs : kwargs[p][1] # "str"}

\* C5: perform_action fails with an unknown-action error (KeyError) for a name that is
\* not registered; otherwise with a parameter error (ValueError) that names every
\* violating parameter; in both cases no method is invoked and no request is issued;
\* otherwise it invokes the method named by the action name with '-' replaced by '_',
\* with the supplied arguments, and returns what that method returns.
C5_Dispatch ==
    last.op = "perform_action" =>
        LET action_name == last.args[1]
            kwargs == last.args[2]
            direct == generate_text(self, kwargs["prompt"], kwargs["system_prompt"],
                                    dict_get(kwargs, "model", None), LastServer)
        IN  IF action_name # GenerateText
            THEN /\ ~last.res.ok /\ last.res.exc = "KeyError"
                 /\ last.invoked = <<>> /\ last.reqs = <<>>
            ELSE IF Violations(kwargs) # {}
            THEN /\ ~last.res.ok /\ last.res.exc = "ValueError"
                 /\ \A p \in Violations(kwargs) : Mentions(last.res.msg, p)
                 /\ last.invoked = <<>> /\ last.reqs = <<>>
            ELSE /\ last.invoked = <<(<<"generate", "_", "text">>)>>
                 /\ last.res = direct.res
                 /\ last.reqs = direct.reqs

C5_Witness ==
    /\ last.op = "perform_action"
    /\ last.args[1] = GenerateText
    /\ DOMAIN last.args[2] = {"prompt"}
    /\ last.res.exc = "ValueError"
    /\ Mentions(last.res.msg, "system_prompt")
    /\ last.reqs = <<>>

====
